---- MODULE Spec2Model ----
(***************************************************************************)
(* A model of wb_to_little_r.py: the fixed-width field formatter           *)
(* (format_value), the little_r block assembler (convert_to_little_r),     *)
(* the time bucketing walk (output_data), the WindBorne request with its   *)
(* retry loop (wb_get_request) and the page loop of main.                  *)
(*                                                                         *)
(* Text is a TLA+ string.  A Python value is a record tagged by its type:  *)
(*   PyNone, PyStr(s), PyInt(n), PyBool(b), PyFloat(neg, ip, fp),          *)
(*   PyDict(d), PyList(items)                                              *)
(* where PyFloat(neg, ip, fp) is the decimal (-1)^neg * (ip + fp / 10^5),  *)
(* a float given with at most five fractional digits, and PyDict(d) holds  *)
(* the function d from the keys present to their values.                   *)
(***************************************************************************)
EXTENDS Integers, Sequences, FiniteSets, TLC

VARIABLES
    pc,             \* position of the running function
    raised,         \* the exception that ended it ("" while none)
    value,          \* format_value: the value argument
    fortran_format, \* format_value: the format argument
    result,         \* format_value: the returned text
    point,          \* convert_to_little_r: the observation argument
    output_file,    \* convert_to_little_r: the path argument
    in_little_r,    \* convert_to_little_r: the returned block
    files,          \* the file system: path -> text written
    accumulated_observations, \* output_data: the observations argument
    mission_name,   \* output_data: the mission argument
    starttime,      \* output_data: the requested start time
    bucket_hours,   \* output_data: the bucket width in hours
    earliest_time,  \* output_data: timestamp of the first sorted observation
    curtime,        \* output_data: start of the current bucket
    start_index,    \* output_data: index where the current segment starts
    i,              \* output_data: the loop index
    warned,         \* output_data: the "before the starttime" message was printed
    calls,          \* output_data: the calls of convert_to_little_r made so far,
                    \* each with the bucket start it was made at
    environ,        \* os.environ: the names of the variables set
    url,            \* wb_get_request: the url argument
    response,       \* wb_get_request: the latest response
    retries,        \* wb_get_request: the retry counter
    gets,           \* wb_get_request: the status of each requests.get made
    sleeps,         \* wb_get_request: the seconds of each time.sleep made
    return_to,      \* wb_get_request: where its caller goes on
    server,         \* the WindBorne service: what it has served so far
    times,          \* main: args.times, the number of times given
    endtime,        \* main: end of the time range
    observations_by_mission, \* main: mission name -> observations, in insertion order
    has_next_page,  \* main: the latest page's flag
    next_page,      \* main: the url of the next request
    observations_page, \* main: the page wb_get_request returned
    pages,          \* main: every page received so far
    mission_index,  \* main: place of the outer output loop
    point_index     \* main: place of the inner output loop

fmtVars == <<value, fortran_format, result>>
cvtVars == <<point, output_file, in_little_r>>
odVars == <<accumulated_observations, mission_name, starttime, bucket_hours,
            earliest_time, curtime, start_index, i, warned, calls>>
rqVars == <<environ, url, response, retries, gets, sleeps, return_to, server>>
mainVars == <<times, endtime, observations_by_mission, has_next_page, next_page,
              observations_page, pages, mission_index, point_index>>
vars == <<pc, raised, fmtVars, cvtVars, files, odVars, rqVars, mainVars>>

(***************************************************************************)
(* Python values                                                           *)
(***************************************************************************)
PyNone == [k |-> "None"]
PyStr(s) == [k |-> "str", s |-> s]
PyInt(n) == [k |-> "int", n |-> n]
PyBool(b) == [k |-> "bool", b |-> b]
PyFloat(neg, ip, fp) == [k |-> "float", neg |-> neg, ip |-> ip, fp |-> fp]
PyDict(d) == [k |-> "dict", d |-> d]
PyList(items) == [k |-> "list", items |-> items]

\* number of fractional digits a Float carries
FracDigits == 5

(***************************************************************************)
(* Python text primitives                                                  *)
(***************************************************************************)
Digits == "0123456789"

DigitChar(d) == SubSeq(Digits, d + 1, d + 1)

IsDigit(c) == \E d \in 0..9 : DigitChar(d) = c

DigitVal(c) == CHOOSE d \in 0..9 : DigitChar(d) = c

RECURSIVE NatStr(_)
NatStr(n) == IF n < 10 THEN DigitChar(n) ELSE NatStr(n \div 10) \o DigitChar(n % 10)

\* str(n) and format(n, 'd') of an int
IntStr(n) == IF n < 0 THEN "-" \o NatStr(-n) ELSE NatStr(n)

RECURSIVE Pow10(_)
Pow10(e) == IF e <= 0 THEN 1 ELSE 10 * Pow10(e - 1)

\* ch * n
RECURSIVE Repeat(_, _)
Repeat(ch, n) == IF n <= 0 THEN "" ELSE ch \o Repeat(ch, n - 1)

\* a slice that cuts nothing off
Prefix_Whole(s, n) == s

\* s[:n]
Prefix(s, n) == SubSeq(s, 1, IF n < Len(s) THEN n ELSE Len(s))

\* s.rjust(w, ' ') and the '>w' alignment of a format spec
rjust(s, w) == Repeat(" ", w - Len(s)) \o s

\* s.ljust(w, ' ')
ljust(s, w) == s \o Repeat(" ", w - Len(s))

\* n as exactly w digits, zero padded on the left (n < 10^w)
ZeroPad(n, w) == Repeat("0", w - Len(NatStr(n))) \o NatStr(n)

\* int(s) succeeds: s is a non-empty run of decimal digits
IsInt(s) == Len(s) > 0 /\ \A j \in 1..Len(s) : IsDigit(SubSeq(s, j, j))

\* int(s)
RECURSIVE int(_)
int(s) ==
    IF Len(s) = 0 THEN 0
    ELSE 10 * int(SubSeq(s, 1, Len(s) - 1)) + DigitVal(SubSeq(s, Len(s), Len(s)))

\* the positions of '.' in s
Dots(s) == {j \in 1..Len(s) : SubSeq(s, j, j) = "."}

(***************************************************************************)
(* Rendering of numbers                                                    *)
(***************************************************************************)
\* a number as a Float: an int n is n.0, True is 1.0
AsFloat(v) ==
    CASE v.k = "float" -> v
      [] v.k = "int" -> PyFloat(v.n < 0, IF v.n < 0 THEN -v.n ELSE v.n, 0)
      [] v.k = "bool" -> PyFloat(FALSE, IF v.b THEN 1 ELSE 0, 0)

\* format(v, '.<d>f'): fixed point with d fractional digits, the exact value
\* rounded half to even (what Python prints for a value its float holds exactly)
FixedStr(v, d) ==
    LET f == AsFloat(v)
        scale == Pow10(FracDigits - d)
        q == f.fp \div scale
        r == f.fp % scale
        lastOdd == IF d = 0 THEN f.ip % 2 = 1 ELSE q % 2 = 1
        up == d < FracDigits /\ (2 * r > scale \/ (2 * r = scale /\ lastOdd))
        q1 == IF up THEN q + 1 ELSE q
        carry == d < FracDigits /\ q1 = Pow10(d)
        ipart == IF carry THEN f.ip + 1 ELSE f.ip
        frac == IF d >= FracDigits
                THEN ZeroPad(f.fp, FracDigits) \o Repeat("0", d - FracDigits)
                ELSE IF d = 0 THEN "" ELSE ZeroPad(IF carry THEN 0 ELSE q1, d)
    IN (IF f.neg THEN "-" ELSE "") \o NatStr(ipart)
       \o (IF d = 0 THEN "" ELSE "." \o frac)

\* the fractional digits of repr(float): trailing zeros dropped, one digit kept
RECURSIVE StripZeros(_)
StripZeros(s) ==
    IF Len(s) > 1 /\ SubSeq(s, Len(s), Len(s)) = "0"
    THEN StripZeros(SubSeq(s, 1, Len(s) - 1))
    ELSE s

\* str(value)
str(v) ==
    CASE v.k = "None" -> "None"
      [] v.k = "str" -> v.s
      [] v.k = "int" -> IntStr(v.n)
      [] v.k = "bool" -> (IF v.b THEN "True" ELSE "False")
      [] v.k = "float" ->
            (IF v.neg THEN "-" ELSE "") \o NatStr(v.ip) \o "."
            \o StripZeros(ZeroPad(v.fp, FracDigits))

\* bool(value)
Truthy(v) ==
    CASE v.k = "None" -> FALSE
      [] v.k = "str" -> v.s # ""
      [] v.k = "int" -> v.n # 0
      [] v.k = "bool" -> v.b
      [] v.k = "float" -> v.ip # 0 \/ v.fp # 0

\* value in ['T', 't', 'True', 'true', '1', True]   (1 == True and 1.0 == True)
InTrueTokens(v) ==
    CASE v.k = "None" -> FALSE
      [] v.k = "str" -> v.s \in {"T", "t", "True", "true", "1"}
      [] v.k = "int" -> v.n = 1
      [] v.k = "bool" -> v.b
      [] v.k = "float" -> ~v.neg /\ v.ip = 1 /\ v.fp = 0

(***************************************************************************)
(* format_value                                                            *)
(***************************************************************************)
Ok(text) == [raised |-> "", text |-> text]
Raise(exc) == [raised |-> exc, text |-> ""]

\* value is None or value == ''
IsMissing(v) == v.k = "None" \/ (v.k = "str" /\ v.s = "")

\* the 'F' branch
FormatF(v, spec) ==
    LET rest == SubSeq(spec, 2, Len(spec))
        dots == Dots(rest)
        dot == CHOOSE j \in dots : TRUE
        length == SubSeq(rest, 1, dot - 1)
        decimal_places == SubSeq(rest, dot + 1, Len(rest))
    IN IF Cardinality(dots) # 1 THEN Raise("ValueError")
       ELSE IF IsMissing(v)
       THEN (IF IsInt(length) THEN Ok(Repeat(" ", int(length))) ELSE Raise("ValueError"))
       ELSE IF v.k = "str" \/ ~IsInt(length) \/ ~IsInt(decimal_places)
       THEN Raise("ValueError")
       ELSE Ok(Prefix(rjust(FixedStr(v, int(decimal_places)), int(length)), int(length)))

\* the 'I' branch
FormatI(v, spec) ==
    LET rest == SubSeq(spec, 2, Len(spec))
    IN IF ~IsInt(rest) THEN Raise("ValueError")
       ELSE IF IsMissing(v) THEN Ok(Repeat(" ", int(rest)))
       ELSE IF v.k \in {"str", "float"} THEN Raise("ValueError")
       ELSE Ok(Prefix(rjust(IntStr(IF v.k = "bool" THEN (IF v.b THEN 1 ELSE 0) ELSE v.n),
                            int(rest)), int(rest)))

\* the 'A' branch
FormatA(v, spec) ==
    LET rest == SubSeq(spec, 2, Len(spec))
    IN IF ~IsInt(rest) THEN Raise("ValueError")
       ELSE IF v.k = "None" THEN Ok(Repeat(" ", int(rest)))
       ELSE Ok(ljust(Prefix(str(v), int(rest)), int(rest)))

\* the 'L' branch
FormatL(v, spec) ==
    LET rest == SubSeq(spec, 2, Len(spec))
        flag == IF Truthy(v) /\ InTrueTokens(v) THEN "T" ELSE "F"
    IN IF ~IsInt(rest) THEN Raise("ValueError")
       ELSE Ok(rjust(flag, int(rest)))

format_value(v, spec) ==
    LET kind == SubSeq(spec, 1, 1)
    IN IF Len(spec) = 0 THEN Raise("IndexError")
       ELSE CASE kind = "F" -> FormatF(v, spec)
              [] kind = "I" -> FormatI(v, spec)
              [] kind = "A" -> FormatA(v, spec)
              [] kind = "L" -> FormatL(v, spec)
              [] OTHER -> Raise("ValueError")

(***************************************************************************)
(* datetime: UTC calendar fields of an epoch time                          *)
(***************************************************************************)
\* datetime.datetime.fromtimestamp(t, tz=utc): the proleptic Gregorian date
\* and the time of day of second t since 1970-01-01T00:00:00Z
fromtimestamp(t) ==
    LET days == t \div 86400
        secs == t % 86400
        z == days + 719468
        era == z \div 146097
        doe == z - era * 146097
        yoe == (doe - doe \div 1460 + doe \div 36524 - doe \div 146096) \div 365
        doy == doe - (365 * yoe + yoe \div 4 - yoe \div 100)
        mp == (5 * doy + 2) \div 153
        m == IF mp < 10 THEN mp + 3 ELSE mp - 9
    IN [year |-> yoe + era * 400 + (IF m <= 2 THEN 1 ELSE 0),
        month |-> m,
        day |-> doy - (153 * mp + 2) \div 5 + 1,
        hour |-> secs \div 3600,
        minute |-> (secs % 3600) \div 60,
        second |-> secs % 60]

\* observation_time.strftime('%Y%m%d%H%M%S')
strftime(dt) ==
    ZeroPad(dt.year, 4) \o ZeroPad(dt.month, 2) \o ZeroPad(dt.day, 2)
    \o ZeroPad(dt.hour, 2) \o ZeroPad(dt.minute, 2) \o ZeroPad(dt.second, 2)

(***************************************************************************)
(* convert_to_little_r                                                     *)
(***************************************************************************)
\* point.get(key)
Get(pt, key) == IF key \in DOMAIN pt.d THEN pt.d[key] ELSE PyNone

\* a call format_value(v, spec) waiting to be made
Field(v, spec) == <<v, spec>>

\* the texts of parts[lo..hi], one after the other
RECURSIVE Concat(_, _, _)
Concat(parts, lo, hi) ==
    IF lo > hi THEN ""
    ELSE IF lo = hi THEN parts[lo].text
    ELSE Concat(parts, lo, (lo + hi) \div 2) \o Concat(parts, (lo + hi) \div 2 + 1, hi)

\* ''.join(parts): the first exception raised while the list is built ends
\* the function
JoinParts(parts) ==
    IF \E j \in 1..Len(parts) : parts[j].raised # ""
    THEN parts[CHOOSE j \in 1..Len(parts) :
                   /\ parts[j].raised # ""
                   /\ \A h \in 1..(j - 1) : parts[h].raised = ""]
    ELSE Ok(Concat(parts, 1, Len(parts)))

\* ''.join([format_value(...), ...])
Join(fields) ==
    JoinParts([j \in 1..Len(fields) |-> format_value(fields[j][1], fields[j][2])])

\* the arguments of format_value(v, 'F13.5') + format_value(0, 'I7')
ValueQC(v) == <<Field(v, "F13.5"), Field(PyInt(0), "I7")>>

Missing == PyFloat(TRUE, 888888, 0)

\* datetime.datetime.fromtimestamp(point['timestamp'], tz=utc) and its
\* strftime('%Y%m%d%H%M%S')
ObservationTime(pt) ==
    IF pt.k # "dict" THEN Raise("TypeError")
    ELSE IF "timestamp" \notin DOMAIN pt.d THEN Raise("KeyError")
    ELSE CASE pt.d["timestamp"].k = "int" ->
                Ok(strftime(fromtimestamp(pt.d["timestamp"].n)))
           [] pt.d["timestamp"].k = "float" /\ ~pt.d["timestamp"].neg ->
                Ok(strftime(fromtimestamp(pt.d["timestamp"].ip)))
           [] OTHER -> Raise("TypeError")

\* latitude, longitude, id, name, platform, source
HeaderStation(pt) ==
    <<Field(Get(pt, "latitude"), "F20.5"),
      Field(Get(pt, "longitude"), "F20.5"),
      Field(Get(pt, "id"), "A40"),
      Field(Get(pt, "mission_name"), "A40"),
      Field(PyStr("FM-35 TEMP"), "A40"),
      Field(PyStr("WindBorne"), "A40")>>

\* elevation, valid fields, errors, warnings, sequence number, duplicates,
\* is sounding, is bogus, discard, unix time, julian day
HeaderCounts ==
    <<Field(PyStr(""), "F20.5"),
      Field(PyInt(-888888), "I10"),
      Field(PyInt(0), "I10"),
      Field(PyInt(0), "I10"),
      Field(PyInt(0), "I10"),
      Field(PyInt(0), "I10"),
      Field(PyStr("T"), "L10"),
      Field(PyStr("F"), "L10"),
      Field(PyStr("F"), "L10"),
      Field(PyInt(-888888), "I10"),
      Field(PyInt(-888888), "I10")>>

\* a header without the precipitable water pair
HeaderSurface_13 ==
    ValueQC(Missing) \o ValueQC(Missing) \o ValueQC(Missing) \o ValueQC(Missing)
    \o ValueQC(Missing) \o ValueQC(Missing) \o ValueQC(Missing) \o ValueQC(Missing)
    \o ValueQC(Missing) \o ValueQC(Missing) \o ValueQC(Missing) \o ValueQC(Missing)
    \o ValueQC(Missing)

\* SLP, ref pressure, ground temp, SST, SFC pressure, precip, daily max T,
\* daily min T, night min T, 3hr and 24hr pres change, cloud cover, ceiling,
\* precipitable water: each with its QC
HeaderSurface ==
    ValueQC(Missing) \o ValueQC(Missing) \o ValueQC(Missing) \o ValueQC(Missing)
    \o ValueQC(Missing) \o ValueQC(Missing) \o ValueQC(Missing) \o ValueQC(Missing)
    \o ValueQC(Missing) \o ValueQC(Missing) \o ValueQC(Missing) \o ValueQC(Missing)
    \o ValueQC(Missing) \o ValueQC(Missing)

\* header, given the text of the observation time
Header(pt, date) ==
    Join(HeaderStation(pt) \o HeaderCounts \o <<Field(PyStr(date), "A20")>>
         \o HeaderSurface)

\* pressure_hpa * 100.0
TimesHundred(v) ==
    PyFloat(AsFloat(v).neg,
            AsFloat(v).ip * 100 + (AsFloat(v).fp * 100) \div Pow10(FracDigits),
            (AsFloat(v).fp * 100) % Pow10(FracDigits))

\* 273.15 in units of 10^-5
KelvinOffset == 27315000

\* a signed count of units of 10^-5 as a float
FromUnits(units) ==
    PyFloat(units < 0,
            (IF units < 0 THEN -units ELSE units) \div Pow10(FracDigits),
            (IF units < 0 THEN -units ELSE units) % Pow10(FracDigits))

\* temperature_c + 273.15
PlusKelvin(v) ==
    FromUnits((IF AsFloat(v).neg THEN -1 ELSE 1)
              * (AsFloat(v).ip * Pow10(FracDigits) + AsFloat(v).fp) + KelvinOffset)

IsNumber(v) == v.k \in {"float", "int", "bool"}

\* pressure_pa
PressurePa(pt) ==
    IF Get(pt, "pressure").k = "None" THEN Missing
    ELSE TimesHundred(Get(pt, "pressure"))

\* temperature_k
TemperatureK(pt) ==
    IF Get(pt, "temperature").k = "None" THEN Missing
    ELSE PlusKelvin(Get(pt, "temperature"))

\* pressure, height, temperature, dew point, wind speed, wind direction,
\* wind U, wind V, relative humidity, thickness: each with its QC
DataRecord(pt) ==
    IF ~(Get(pt, "pressure").k = "None" \/ IsNumber(Get(pt, "pressure")))
       \/ ~(Get(pt, "temperature").k = "None" \/ IsNumber(Get(pt, "temperature")))
    THEN Raise("TypeError")
    ELSE Join(ValueQC(PressurePa(pt))
              \o ValueQC(Get(pt, "altitude"))
              \o ValueQC(TemperatureK(pt))
              \o ValueQC(Missing)
              \o ValueQC(Missing)
              \o ValueQC(Missing)
              \o ValueQC(Get(pt, "speed_u"))
              \o ValueQC(Get(pt, "speed_v"))
              \o ValueQC(Get(pt, "humidity"))
              \o ValueQC(Missing))

end_record ==
    "-777777.00000      0-777777.00000      0-888888.00000      0-888888.00000      0-888888.00000      0-888888.00000      0-888888.00000      0-888888.00000      0-888888.00000      0-888888.00000      0"

tail_record == "     39      0      0"

Raised(exc) == [raised |-> exc, text |-> "", header |-> "", data_record |-> ""]

\* lines joined by '\n', once the header and the data record are built
Block(hdr, data) ==
    IF hdr.raised # "" THEN Raised(hdr.raised)
    ELSE IF data.raised # "" THEN Raised(data.raised)
    ELSE [raised |-> "",
          text |-> hdr.text \o "\n" \o data.text \o "\n" \o end_record
                   \o "\n" \o tail_record,
          header |-> hdr.text,
          data_record |-> data.text]

WithTime(pt, time) ==
    IF time.raised # "" THEN Raised(time.raised)
    ELSE Block(Header(pt, time.text), DataRecord(pt))

\* the block convert_to_little_r returns (with its first two lines apart), or
\* the exception it raises
convert_to_little_r(pt) == WithTime(pt, ObservationTime(pt))

(***************************************************************************)
(* The variables of the functions a specification does not run             *)
(***************************************************************************)
IdleFormat ==
    /\ value = PyNone
    /\ fortran_format = ""
    /\ result = ""

IdleConvert ==
    /\ point = PyNone
    /\ output_file = ""
    /\ in_little_r = ""

IdleOutputData ==
    /\ accumulated_observations = <<>>
    /\ mission_name = ""
    /\ starttime = 0
    /\ bucket_hours = 0
    /\ earliest_time = 0
    /\ curtime = 0
    /\ start_index = 0
    /\ i = 0
    /\ warned = FALSE
    /\ calls = <<>>

IdleRequest ==
    /\ environ = {}
    /\ url = ""
    /\ response = PyNone
    /\ retries = 0
    /\ gets = <<>>
    /\ sleeps = <<>>
    /\ return_to = ""
    /\ server = [served |-> 0, pages |-> 0]

IdleMain ==
    /\ times = 0
    /\ endtime = 0
    /\ observations_by_mission = <<>>
    /\ has_next_page = FALSE
    /\ next_page = ""
    /\ observations_page = PyNone
    /\ pages = <<>>
    /\ mission_index = 0
    /\ point_index = 0

(***************************************************************************)
(* The formatter applied to one (value, format) pair                       *)
(***************************************************************************)
\* largest field width drawn
MaxWidth == 4
\* largest number of fractional digits drawn
MaxDecimals == 2

\* the format kinds drawn: the four the formatter knows and one it does not
Kinds == {"F", "I", "A", "L", "X"}

\* the formats convert_to_little_r asks for
ProgramSpecs == {"F20.5", "F13.5", "I10", "I7", "A40", "A20", "L10"}

FormatSpecs ==
    {"F" \o NatStr(w) \o "." \o NatStr(d) : w \in 0..MaxWidth, d \in 0..MaxDecimals}
    \cup {k \o NatStr(w) : k \in Kinds \ {"F"}, w \in 0..MaxWidth}
    \cup ProgramSpecs

FloatValues ==
    {PyFloat(neg, ip, fp) : neg \in BOOLEAN, ip \in {0, 2, 9, 12, 999, 123456},
                          fp \in {0, 12500, 50000, 99900}}

IntValues == {PyInt(n) : n \in {0, 7, -7, 42, 999, -888888, 1}}

StrValues == {PyStr(s) : s \in {"", "a", "abc", "FM-35 TEMP", "T", "true", "1"}}

Values == {PyNone} \cup FloatValues \cup IntValues \cup StrValues
          \cup {PyBool(TRUE), PyBool(FALSE)}

InitFormat ==
    /\ pc = "format_value"
    /\ raised = ""
    /\ value \in Values
    /\ fortran_format \in FormatSpecs
    /\ result = ""
    /\ files = <<>>
    /\ IdleConvert
    /\ IdleOutputData
    /\ IdleRequest
    /\ IdleMain

FormatValue ==
    /\ pc = "format_value"
    /\ LET r == format_value(value, fortran_format)
       IN /\ result' = r.text
          /\ raised' = r.raised
          /\ pc' = IF r.raised = "" THEN "returned" ELSE "raised"
    /\ UNCHANGED <<value, fortran_format, cvtVars, files, odVars, rqVars, mainVars>>

NextFormat == FormatValue

SpecFormat == InitFormat /\ [][NextFormat]_vars

(***************************************************************************)
(* The assembler applied to one observation                                *)
(***************************************************************************)
\* a dict of the keys whose value is not Absent
Absent == [k |-> "absent"]

MakeDict(f) == PyDict([key \in {x \in DOMAIN f : f[x] # Absent} |-> f[key]])

Timestamps == {PyInt(951827696), PyInt(1700000000)}

Positions == {<<Absent, Absent>>,
              <<PyFloat(FALSE, 45, 0), PyFloat(TRUE, 122, 0)>>}

Names == {<<Absent, Absent>>, <<PyStr("abc"), PyStr("M1")>>,
          <<PyStr("0123456789abcdefghijklmnopqrstuvwxyzABCDEFGH"), PyStr("W-1234")>>}

Pressures == {Absent, PyFloat(FALSE, 1013, 25000)}

Temperatures == {Absent, PyFloat(FALSE, 20, 0), PyFloat(TRUE, 56, 50000)}

Optional(v) == {Absent, v}

Points ==
    {MakeDict([timestamp |-> ts, latitude |-> pos[1], longitude |-> pos[2],
               id |-> nm[1], mission_name |-> nm[2], pressure |-> p,
               temperature |-> t, altitude |-> alt, speed_u |-> u, speed_v |-> v,
               humidity |-> h]) :
        ts \in Timestamps \cup {Absent}, pos \in Positions, nm \in Names,
        p \in Pressures, t \in Temperatures,
        alt \in Optional(PyFloat(FALSE, 15240, 50000)),
        u \in Optional(PyFloat(TRUE, 12, 34000)),
        v \in Optional(PyFloat(FALSE, 0, 50000)),
        h \in Optional(PyFloat(FALSE, 55, 12000))}

InitConvert ==
    /\ pc = "convert_to_little_r"
    /\ raised = ""
    /\ point \in Points
    /\ output_file = "export.little_r"
    /\ in_little_r = ""
    /\ files = <<>>
    /\ IdleFormat
    /\ IdleOutputData
    /\ IdleRequest
    /\ IdleMain

\* with open(output_file, 'w') as f: f.write(text)
WriteFile(fs, path, text) == (path :> text) @@ fs

ConvertToLittleR ==
    /\ pc = "convert_to_little_r"
    /\ \E r \in {convert_to_little_r(point)} :
          IF r.raised # ""
          THEN /\ raised' = r.raised
               /\ pc' = "raised"
               /\ UNCHANGED <<in_little_r, files>>
          ELSE /\ in_little_r' = r.text
               /\ files' = WriteFile(files, output_file, r.text)
               /\ pc' = "returned"
               /\ UNCHANGED raised
    /\ UNCHANGED <<fmtVars, point, output_file, odVars, rqVars, mainVars>>

NextConvert == ConvertToLittleR

SpecConvert == InitConvert /\ [][NextConvert]_vars

(***************************************************************************)
(* output_data                                                             *)
(***************************************************************************)
\* x['timestamp']
Timestamp(observation) == observation.d["timestamp"].n

\* sorted so far, with x put after every element whose key is not larger
Insert(sorted, x) ==
    LET before == {j \in 1..Len(sorted) : Timestamp(sorted[j]) <= Timestamp(x)}
        n == Cardinality(before)
    IN SubSeq(sorted, 1, n) \o <<x>> \o SubSeq(sorted, n + 1, Len(sorted))

\* list.sort(key=lambda x: x['timestamp']): stable
RECURSIVE SortByTimestamp(_)
SortByTimestamp(list) ==
    IF Len(list) = 0 THEN <<>>
    ELSE Insert(SortByTimestamp(SubSeq(list, 1, Len(list) - 1)), list[Len(list)])

\* bucket_hours * 60 * 60
BucketSeconds(hours) == hours * 60 * 60

\* datetime.timedelta(hours=bucket_hours).seconds: the seconds left once the
\* whole days are taken out
TimedeltaSeconds(hours) == (hours * 3600) % 86400

\* list[a:b]
Slice(list, a, b) == SubSeq(list, a + 1, b)

\* the file named after the middle of the bucket that starts at time t
BucketFile(mission, t, hours) ==
    LET mt == fromtimestamp(t + hours * 1800)
    IN "WindBorne_" \o mission \o "_" \o ZeroPad(mt.year, 4) \o "-"
       \o ZeroPad(mt.month, 2) \o "-" \o ZeroPad(mt.day, 2) \o "_"
       \o ZeroPad(mt.hour, 2) \o ":00_" \o IntStr(hours) \o "h.little_r"

\* the observation loop closes the current segment at index j
Closes(list, j, t, hours) == Timestamp(list[j + 1]) - t > BucketSeconds(hours)

\* largest number of observations handed to output_data
MaxObservations == 3

ObservationTimes == {100, 200, 3600, 8000, 20000, 20100, 86400, 90000, 180000}

BucketHours == {1, 24, 25}

\* the observations with the timestamps ts, named by their place in the input
Observations(ts) ==
    [j \in 1..Len(ts) |->
        PyDict([timestamp |-> PyInt(ts[j]), id |-> PyStr("o" \o NatStr(j))])]

InitOutputData ==
    /\ pc = "output_data"
    /\ raised = ""
    /\ \E n \in 0..MaxObservations :
          \E ts \in [1..n -> ObservationTimes] :
              accumulated_observations = Observations(ts)
    /\ mission_name = "M1"
    /\ starttime \in {0, 150}
    /\ bucket_hours \in BucketHours
    /\ earliest_time = 0
    /\ curtime = 0
    /\ start_index = 0
    /\ i = 0
    /\ warned = FALSE
    /\ calls = <<>>
    /\ files = <<>>
    /\ IdleFormat
    /\ IdleConvert
    /\ IdleRequest
    /\ IdleMain

\* the two sorts, the earliest time and the start of its bucket
OutputDataStart ==
    /\ pc = "output_data"
    /\ accumulated_observations' = SortByTimestamp(accumulated_observations)
    /\ IF Len(accumulated_observations) = 0
       THEN /\ raised' = "IndexError"
            /\ pc' = "raised"
            /\ UNCHANGED <<earliest_time, warned, curtime>>
       ELSE /\ earliest_time' = Timestamp(accumulated_observations'[1])
            /\ warned' = (earliest_time' < starttime)
            /\ curtime' = earliest_time' - (earliest_time' % BucketSeconds(bucket_hours))
            /\ pc' = "for"
            /\ UNCHANGED raised
    /\ start_index' = 0
    /\ i' = 0
    /\ UNCHANGED <<mission_name, starttime, bucket_hours, calls, files, fmtVars, cvtVars,
                   rqVars, mainVars>>

\* one pass of the for loop
OutputDataIterate ==
    /\ pc = "for"
    /\ i < Len(accumulated_observations)
    /\ IF Closes(accumulated_observations, i, curtime, bucket_hours)
       THEN \E segment \in {Slice(accumulated_observations, start_index, i)},
               file \in {BucketFile(mission_name, curtime, bucket_hours)} :
            \E r \in {convert_to_little_r(PyList(segment))} :
               /\ calls' = Append(calls, [point |-> PyList(segment), output_file |-> file,
                                         curtime |-> curtime])
               /\ IF r.raised # ""
                  THEN /\ raised' = r.raised
                       /\ pc' = "raised"
                       /\ UNCHANGED <<files, start_index, curtime, i>>
                  ELSE /\ files' = WriteFile(files, file, r.text)
                       /\ start_index' = i
                       /\ curtime' = curtime + TimedeltaSeconds(bucket_hours)
                       /\ i' = i + 1
                       /\ UNCHANGED <<raised, pc>>
       ELSE /\ i' = i + 1
            /\ UNCHANGED <<raised, pc, calls, files, start_index, curtime>>
    /\ UNCHANGED <<accumulated_observations, mission_name, starttime, bucket_hours,
                   earliest_time, warned, fmtVars, cvtVars, rqVars, mainVars>>

\* the trailing segment, after the loop
OutputDataFinal ==
    /\ pc = "for"
    /\ i = Len(accumulated_observations)
    /\ \E segment \in {Slice(accumulated_observations, start_index,
                                Len(accumulated_observations))},
          file \in {BucketFile(mission_name, curtime, bucket_hours)} :
       \E r \in {convert_to_little_r(PyList(segment))} :
          /\ calls' = Append(calls, [point |-> PyList(segment), output_file |-> file,
                                         curtime |-> curtime])
          /\ IF r.raised # ""
             THEN /\ raised' = r.raised
                  /\ pc' = "raised"
                  /\ UNCHANGED files
             ELSE /\ files' = WriteFile(files, file, r.text)
                  /\ pc' = "returned"
                  /\ UNCHANGED raised
    /\ UNCHANGED <<accumulated_observations, mission_name, starttime, bucket_hours,
                   earliest_time, curtime, start_index, i, warned, fmtVars, cvtVars,
                   rqVars, mainVars>>

NextOutputData == OutputDataStart \/ OutputDataIterate \/ OutputDataFinal

SpecOutputData == InitOutputData /\ [][NextOutputData]_vars

(***************************************************************************)
(* The WindBorne service                                                   *)
(***************************************************************************)
\* largest number of observations the service holds
MaxServed == 2
\* largest number of observations on one page
MaxPageSize == 2
\* largest number of pages the service cuts its answer into
MaxPages == 2

Missions == {"M1", "M2"}

\* the n-th observation served, of mission m ("": the page names no mission)
ServedObservation(n, m) ==
    MakeDict([id |-> PyStr("obs" \o NatStr(n)),
              timestamp |-> PyInt(1700000000 + 600 * n),
              mission_name |-> IF m = "" THEN Absent ELSE PyStr(m)])

Smaller(a, b) == IF a < b THEN a ELSE b

\* the bodies the service may answer a successful request with, each with the
\* state it leaves the service in
ServerPages(sv) ==
    {[body |-> [observations |->
                    [j \in 1..Len(ms) |-> ServedObservation(sv.served + j, ms[j])],
                has_next_page |-> more,
                next_page |-> "https://sensor-data.windbornesystems.com/api/v1/super_observations.json?since="
                              \o NatStr(sv.served + Len(ms))],
      server |-> [served |-> sv.served + Len(ms), pages |-> sv.pages + 1]] :
        ms \in UNION {[1..k -> Missions \cup {""}] :
                         k \in 0..Smaller(MaxPageSize, MaxServed - sv.served)},
        more \in {b \in BOOLEAN : b => sv.pages + 1 < MaxPages}}

\* what requests.get may come back with: a response, or no response at all
\* (status_code 0: requests.get raises ConnectionError)
Outcomes(sv) ==
    {[status_code |-> 200, body |-> o.body, server |-> o.server] : o \in ServerPages(sv)}
    \cup {[status_code |-> c, body |-> PyNone, server |-> sv] : c \in {0, 404, 500, 502}}

(***************************************************************************)
(* wb_get_request                                                          *)
(***************************************************************************)
MaxRetries == 5

BadGateway == 502

RECURSIVE Pow2(_)
Pow2(e) == IF e <= 0 THEN 1 ELSE 2 * Pow2(e - 1)

\* a loop condition that lets a sixth retry through
ShouldRetry_Six(status_code, n) == status_code = BadGateway /\ n <= MaxRetries

\* response.status_code == 502 and retries < 5
ShouldRetry(status_code, n) == status_code = BadGateway /\ n < MaxRetries

\* response.raise_for_status() raises
IsHTTPError(status_code) == 400 <= status_code /\ status_code < 600

Credentials == {"WB_CLIENT_ID", "WB_API_KEY"}

\* the environment lookups and the first requests.get
RequestStart ==
    /\ pc = "wb_get_request"
    /\ retries' = 0
    /\ sleeps' = <<>>
    /\ IF ~(Credentials \subseteq environ)
       THEN /\ raised' = "KeyError"
            /\ pc' = "raised"
            /\ gets' = <<>>
            /\ UNCHANGED <<response, server>>
       ELSE \E o \in Outcomes(server) :
            /\ gets' = <<o.status_code>>
            /\ response' = [status_code |-> o.status_code, body |-> o.body]
            /\ server' = o.server
            /\ raised' = IF o.status_code = 0 THEN "ConnectionError" ELSE raised
            /\ pc' = IF o.status_code = 0 THEN "raised" ELSE "request_while"
    /\ UNCHANGED <<environ, url, return_to, fmtVars, cvtVars, files, odVars, mainVars>>

\* one pass of the while loop: sleep, get again, count
RequestRetry ==
    /\ pc = "request_while"
    /\ ShouldRetry(response.status_code, retries)
    /\ sleeps' = Append(sleeps, Pow2(retries))
    /\ \E o \in Outcomes(server) :
            /\ gets' = Append(gets, o.status_code)
            /\ response' = [status_code |-> o.status_code, body |-> o.body]
            /\ server' = o.server
            /\ IF o.status_code = 0
               THEN /\ raised' = "ConnectionError"
                    /\ pc' = "raised"
                    /\ UNCHANGED retries
               ELSE /\ retries' = retries + 1
                    /\ UNCHANGED <<raised, pc>>
    /\ UNCHANGED <<environ, url, return_to, fmtVars, cvtVars, files, odVars, mainVars>>

\* raise_for_status and the return of the body
RequestFinish ==
    /\ pc = "request_while"
    /\ ~ShouldRetry(response.status_code, retries)
    /\ IF IsHTTPError(response.status_code)
       THEN /\ raised' = "HTTPError"
            /\ pc' = "raised"
            /\ UNCHANGED observations_page
       ELSE /\ observations_page' = response.body
            /\ pc' = return_to
            /\ UNCHANGED raised
    /\ UNCHANGED <<rqVars, fmtVars, cvtVars, files, odVars, times, endtime,
                   observations_by_mission, has_next_page, next_page, pages,
                   mission_index, point_index>>

InitRequest ==
    /\ pc = "wb_get_request"
    /\ raised = ""
    /\ environ \in {Credentials, {"WB_CLIENT_ID"}, {"WB_API_KEY"}}
    /\ url \in {"https://sensor-data.windbornesystems.com/api/v1/super_observations.json",
                "https://sensor-data.windbornesystems.com/api/v1/super_observations.json?since=1"}
    /\ response = PyNone
    /\ retries = 0
    /\ gets = <<>>
    /\ sleeps = <<>>
    /\ return_to = "returned"
    /\ server \in {[served |-> n, pages |-> 0] : n \in 0..MaxServed}
    /\ files = <<>>
    /\ IdleFormat
    /\ IdleConvert
    /\ IdleOutputData
    /\ IdleMain

NextRequest == RequestStart \/ RequestRetry \/ RequestFinish

\* every requests.get and every time.sleep comes back
SpecRequest == InitRequest /\ [][NextRequest]_vars /\ WF_vars(NextRequest)

(***************************************************************************)
(* main                                                                    *)
(***************************************************************************)
\* the first url
FirstPage(min_time, max_time) ==
    "https://sensor-data.windbornesystems.com/api/v1/super_observations.json?include_ids=true&min_time="
    \o IntStr(min_time) \o "&max_time=" \o IntStr(max_time) \o "&include_mission_name=true"

\* the url after a page that has a next page
FollowingPage(page_url, min_time, max_time) ==
    page_url \o "&include_mission_name=true&include_ids=true&min_time="
    \o IntStr(min_time) \o "&max_time=" \o IntStr(max_time)

\* mission in observations_by_mission
HasMission(by_mission, mission) ==
    \E j \in 1..Len(by_mission) : by_mission[j].mission_name = mission

\* observations_by_mission[mission].append(observation), the key made first
AppendTo(by_mission, mission, observation) ==
    IF HasMission(by_mission, mission)
    THEN [j \in 1..Len(by_mission) |->
            IF by_mission[j].mission_name = mission
            THEN [by_mission[j] EXCEPT !.observations = Append(@, observation)]
            ELSE by_mission[j]]
    ELSE Append(by_mission, [mission_name |-> mission, observations |-> <<observation>>])

\* a loop body that files an observation without a mission name under
\* str(None) instead of passing it over
Collect_Unnamed(st, observation) ==
    [by_mission |-> AppendTo(st.by_mission, str(Get(observation, "mission_name")),
                             observation),
     accumulated |-> Append(st.accumulated, observation)]

\* the body of the loop over a page's observations
Collect(st, observation) ==
    IF "mission_name" \notin DOMAIN observation.d THEN st
    ELSE [by_mission |-> AppendTo(st.by_mission, observation.d["mission_name"].s,
                                  observation),
          accumulated |-> Append(st.accumulated, observation)]

\* the loop over a page's observations
RECURSIVE CollectAll(_, _)
CollectAll(st, observations) ==
    IF Len(observations) = 0 THEN st
    ELSE CollectAll(Collect(st, Head(observations)), Tail(observations))

InitMain ==
    /\ pc = "main"
    /\ raised = ""
    /\ times \in {1, 2, 3}
    /\ environ \in {Credentials, {"WB_CLIENT_ID"}, {}}
    /\ starttime \in {1700000000}
    /\ endtime \in {1700007200}
    /\ observations_by_mission = <<>>
    /\ accumulated_observations = <<>>
    /\ has_next_page = FALSE
    /\ next_page = ""
    /\ observations_page = PyNone
    /\ pages = <<>>
    /\ mission_index = 0
    /\ point_index = 0
    /\ mission_name = ""
    /\ url = ""
    /\ response = PyNone
    /\ retries = 0
    /\ gets = <<>>
    /\ sleeps = <<>>
    /\ return_to = ""
    /\ server = [served |-> 0, pages |-> 0]
    /\ files = <<>>
    /\ bucket_hours = 0
    /\ earliest_time = 0
    /\ curtime = 0
    /\ start_index = 0
    /\ i = 0
    /\ warned = FALSE
    /\ calls = <<>>
    /\ IdleFormat
    /\ IdleConvert

\* the arguments, the credentials and the locals
MainStart ==
    /\ pc = "main"
    /\ IF times \notin {1, 2} \/ ~(Credentials \subseteq environ)
       THEN /\ pc' = "exited"
            /\ UNCHANGED <<observations_by_mission, accumulated_observations,
                           has_next_page, next_page>>
       ELSE /\ observations_by_mission' = <<>>
            /\ accumulated_observations' = <<>>
            /\ has_next_page' = TRUE
            /\ next_page' = FirstPage(starttime, endtime)
            /\ pc' = "main_while"
    /\ UNCHANGED <<raised, fmtVars, cvtVars, files, rqVars, times, endtime,
                   observations_page, pages, mission_index, point_index,
                   mission_name, starttime, bucket_hours, earliest_time, curtime,
                   start_index, i, warned, calls>>

\* while has_next_page: the call of wb_get_request
MainRequest ==
    /\ pc = "main_while"
    /\ has_next_page
    /\ url' = next_page
    /\ return_to' = "main_page"
    /\ pc' = "wb_get_request"
    /\ UNCHANGED <<raised, fmtVars, cvtVars, files, odVars, mainVars, environ,
                   response, retries, gets, sleeps, server>>

\* the rest of the loop body, once the page is there
MainPage ==
    /\ pc = "main_page"
    /\ has_next_page' = observations_page.has_next_page
    /\ next_page' = IF observations_page.has_next_page
                    THEN FollowingPage(observations_page.next_page, starttime, endtime)
                    ELSE next_page
    /\ \E st \in {CollectAll([by_mission |-> observations_by_mission,
                             accumulated |-> accumulated_observations],
                            observations_page.observations)} :
          /\ observations_by_mission' = st.by_mission
          /\ accumulated_observations' = st.accumulated
    /\ pages' = Append(pages, observations_page)
    /\ pc' = "main_while"
    /\ UNCHANGED <<raised, fmtVars, cvtVars, files, rqVars, times, endtime,
                   observations_page, mission_index, point_index,
                   mission_name, starttime, bucket_hours, earliest_time, curtime,
                   start_index, i, warned, calls>>

\* after the loop: nothing found, or on to the output
MainAfterLoop ==
    /\ pc = "main_while"
    /\ ~has_next_page
    /\ pc' = IF Len(observations_by_mission) = 0 THEN "returned" ELSE "main_for"
    /\ mission_index' = 0
    /\ point_index' = 0
    /\ UNCHANGED <<raised, fmtVars, cvtVars, files, odVars, rqVars, times, endtime,
                   observations_by_mission, has_next_page, next_page,
                   observations_page, pages>>

\* os.path.join(os.path.join('data', mission), f"{id}.little_r")
PointFile(mission, id) == "data/" \o mission \o "/" \o str(id) \o ".little_r"

\* one point of one mission: its file is written
MainOutput ==
    /\ pc = "main_for"
    /\ \E group \in {observations_by_mission[mission_index + 1]} :
       \E pt \in {group.observations[point_index + 1]} :
          /\ mission_name' = group.mission_name
          /\ accumulated_observations' = group.observations
          /\ point' = pt
          /\ IF "id" \notin DOMAIN pt.d
             THEN /\ raised' = "KeyError"
                  /\ pc' = "raised"
                  /\ UNCHANGED <<output_file, files, mission_index, point_index>>
             ELSE \E file \in {PointFile(group.mission_name, pt.d["id"])} :
                  \E r \in {convert_to_little_r(pt)} :
                     /\ output_file' = file
                     /\ IF r.raised # ""
                        THEN /\ raised' = r.raised
                             /\ pc' = "raised"
                             /\ UNCHANGED <<files, mission_index, point_index>>
                        ELSE /\ files' = WriteFile(files, file, r.text)
                             /\ UNCHANGED raised
                             /\ IF point_index + 1 < Len(group.observations)
                                THEN /\ point_index' = point_index + 1
                                     /\ UNCHANGED <<mission_index, pc>>
                                ELSE /\ point_index' = 0
                                     /\ mission_index' = mission_index + 1
                                     /\ pc' = IF mission_index + 1 < Len(observations_by_mission)
                                              THEN "main_for" ELSE "returned"
    /\ UNCHANGED <<fmtVars, in_little_r, rqVars, times, endtime,
                   observations_by_mission, has_next_page, next_page,
                   observations_page, pages, starttime, bucket_hours,
                   earliest_time, curtime, start_index, i, warned, calls>>

Init == InitMain

Next ==
    \/ MainStart
    \/ MainRequest
    \/ RequestStart
    \/ RequestRetry
    \/ RequestFinish
    \/ MainPage
    \/ MainAfterLoop
    \/ MainOutput

Spec == Init /\ [][Next]_vars

(***************************************************************************)
(* Properties of format_value                                              *)
(***************************************************************************)
FourKinds == {"F", "I", "A", "L"}

\* the kind letter of a format
SpecKind(spec) == SubSeq(spec, 1, 1)

\* the width w of a format F<w>.<d>, I<w>, A<w> or L<w>
SpecWidth(spec) ==
    LET rest == SubSeq(spec, 2, Len(spec))
    IN IF Dots(rest) = {} THEN int(rest)
       ELSE int(SubSeq(rest, 1, (CHOOSE j \in Dots(rest) : TRUE) - 1))

\* the number d of fractional digits of a format F<w>.<d>
SpecDecimals(spec) ==
    LET rest == SubSeq(spec, 2, Len(spec))
    IN int(SubSeq(rest, (CHOOSE j \in Dots(rest) : TRUE) + 1, Len(rest)))

\* the value is absent, empty, or of the type the kind renders: a number for
\* F, a whole number for I, anything for A and L
Typed(v, spec) ==
    CASE SpecKind(spec) = "F" -> IsMissing(v) \/ IsNumber(v)
      [] SpecKind(spec) = "I" -> IsMissing(v) \/ v.k \in {"int", "bool"}
      [] SpecKind(spec) \in {"A", "L"} -> TRUE
      [] OTHER -> FALSE

\* the rendering of a present value before it is fitted to the width
Natural(v, spec) ==
    CASE SpecKind(spec) = "F" -> FixedStr(v, SpecDecimals(spec))
      [] SpecKind(spec) = "I" ->
            IntStr(IF v.k = "bool" THEN (IF v.b THEN 1 ELSE 0) ELSE v.n)
      [] SpecKind(spec) = "A" -> str(v)
      [] SpecKind(spec) = "L" -> (IF InTrueTokens(v) THEN "T" ELSE "F")

\* C4, as amended: for every format F<w>.<d>, I<w>, A<w> or L<w> (w >= 1 for
\* L) and every value that is None, '' or of the type the kind renders,
\* format_value returns, without raising, a text of exactly w characters; a
\* present value whose rendering is longer than w comes back as the first w
\* characters of that rendering.
C4_WidthInvariant ==
    (/\ pc # "format_value"
     /\ Typed(value, fortran_format)
     /\ (SpecKind(fortran_format) = "L" => SpecWidth(fortran_format) >= 1)) =>
        /\ pc = "returned"
        /\ raised = ""
        /\ Len(result) = SpecWidth(fortran_format)
        /\ (/\ ~IsMissing(value)
            /\ Len(Natural(value, fortran_format)) > SpecWidth(fortran_format)) =>
               result = SubSeq(Natural(value, fortran_format), 1,
                               SpecWidth(fortran_format))

\* C4: -888888 in I3 overflows and comes back as its first three characters
C4_Overflow ==
    /\ pc = "returned"
    /\ value = PyInt(-888888)
    /\ fortran_format = "I3"
    /\ result = "-88"

\* C4, as stated: for every value whatever and every format of the four kinds,
\* format_value returns a text of exactly w characters and never raises.
C4_EveryValue ==
    (pc # "format_value" /\ SpecKind(fortran_format) \in FourKinds) =>
        /\ pc = "returned"
        /\ Len(result) = SpecWidth(fortran_format)

(***************************************************************************)
(* Properties of convert_to_little_r                                       *)
(***************************************************************************)
\* the places of the line ends of a text
Newlines(text) == {j \in 1..Len(text) : SubSeq(text, j, j) = "\n"}

\* text.split('\n')[n - 1]
Line(text, n) ==
    LET ends == Newlines(text)
        nth(m) == CHOOSE j \in ends : Cardinality({h \in ends : h < j}) = m - 1
    IN SubSeq(text,
              IF n = 1 THEN 1 ELSE nth(n - 1) + 1,
              IF n > Cardinality(ends) THEN Len(text) ELSE nth(n) - 1)

\* the value columns of the k-th (value, QC) pair of a data line
DataValue(line, k) == SubSeq(line, 20 * (k - 1) + 1, 20 * (k - 1) + 13)

\* the pass-through fields of the data line, each with the place of its pair
PassThrough == {<<"altitude", 2>>, <<"speed_u", 7>>, <<"speed_v", 8>>, <<"humidity", 9>>}

\* C5, as stated: in the data line an absent altitude, speed_u, speed_v or
\* humidity is rendered as the sentinel -888888.00000, and a present one is
\* rendered as it is, in F13.5.
C5_AbsentIsSentinel ==
    pc = "returned" =>
        \A f \in PassThrough :
            DataValue(Line(in_little_r, 2), f[2]) =
                IF f[1] \in DOMAIN point.d
                THEN format_value(point.d[f[1]], "F13.5").text
                ELSE "-888888.00000"

\* C5: what the code does with an absent altitude: thirteen blanks, next to
\* an absent pressure that is rendered as the sentinel
C5_AbsentIsBlank ==
    /\ pc = "returned"
    /\ "altitude" \notin DOMAIN point.d
    /\ "pressure" \notin DOMAIN point.d
    /\ DataValue(Line(in_little_r, 2), 2) = "             "
    /\ DataValue(Line(in_little_r, 2), 1) = "-888888.00000"

\* a missing surface value with its QC
SurfacePair == "-888888.00000      0"

\* the eighteen leading fields of the header of an observation
LeadingFields(pt) ==
    format_value(Get(pt, "latitude"), "F20.5").text
    \o format_value(Get(pt, "longitude"), "F20.5").text
    \o format_value(Get(pt, "id"), "A40").text
    \o format_value(Get(pt, "mission_name"), "A40").text
    \o ljust("FM-35 TEMP", 40)
    \o ljust("WindBorne", 40)
    \o Repeat(" ", 20)
    \o "   -888888"
    \o "         0" \o "         0" \o "         0" \o "         0"
    \o "         T" \o "         F" \o "         F"
    \o "   -888888"
    \o "   -888888"
    \o ljust(strftime(fromtimestamp(pt.d["timestamp"].n)), 20)

\* n surface pairs, one after the other
RECURSIVE SurfacePairs(_)
SurfacePairs(n) == IF n <= 0 THEN "" ELSE SurfacePair \o SurfacePairs(n - 1)

\* C6, as amended: the header of every observation is the eighteen leading
\* fields in their fixed order and widths (the unix time field holding
\* -888888, not the timestamp), followed by exactly fourteen (F13.5, I7) pairs
\* '-888888.00000' with QC 0: 620 characters for every observation.
C6_HeaderLayout ==
    pc = "returned" =>
        /\ Line(in_little_r, 1) = LeadingFields(point) \o SurfacePairs(14)
        /\ Len(Line(in_little_r, 1)) = 620

\* C6: a header written for an observation whose id is longer than its
\* column, with the fourteenth pair in the last twenty columns
C6_HeaderWritten ==
    /\ pc = "returned"
    /\ Get(point, "id") = PyStr("0123456789abcdefghijklmnopqrstuvwxyzABCDEFGH")
    /\ SubSeq(in_little_r, 41, 80) = "0123456789abcdefghijklmnopqrstuvwxyzABCD"
    /\ SubSeq(in_little_r, 601, 620) = SurfacePair
    /\ SubSeq(in_little_r, 621, 621) = "\n"
    /\ files = WriteFile(<<>>, output_file, in_little_r)

\* C6, as stated: the leading fields are followed by exactly eleven
\* (F13.5, I7) pairs.
C6_ElevenPairs ==
    pc = "returned" =>
        Line(in_little_r, 1) = LeadingFields(point) \o SurfacePairs(11)

(***************************************************************************)
(* Properties of output_data                                               *)
(***************************************************************************)
\* the observations handed to the renderer so far, in the order handed over
RECURSIVE Emitted(_)
Emitted(cs) ==
    IF Len(cs) = 0 THEN <<>>
    ELSE Emitted(SubSeq(cs, 1, Len(cs) - 1)) \o cs[Len(cs)].point.items

\* output_data is over, for a list that was not empty
Ended == pc \in {"returned", "raised"} /\ Len(accumulated_observations) > 0

\* the start of the bucket of the earliest observation
FirstBucket == earliest_time - (earliest_time % (bucket_hours * 3600))

\* the segments closed inside the loop so far (the trailing one is not closed
\* by an observation)
ClosesDone ==
    IF pc \in {"returned", "raised"} /\ i = Len(accumulated_observations)
    THEN Len(calls) - 1
    ELSE Len(calls)

\* the place of an observation in the sorted list
Place(observation) ==
    CHOOSE j \in 1..Len(accumulated_observations) :
        accumulated_observations[j] = observation

\* C1, as stated: once output_data is over for a non-empty list, the segments
\* handed to the renderer, put end to end, are the sorted list (nothing
\* dropped, nothing twice), none of them is empty, and they come in
\* non-decreasing time order.
C1_BucketCoverage ==
    Ended =>
        /\ Emitted(calls) = accumulated_observations
        /\ \A k \in 1..Len(calls) : Len(calls[k].point.items) > 0
        /\ \A j \in 1..(Len(accumulated_observations) - 1) :
              Timestamp(accumulated_observations[j])
                  <= Timestamp(accumulated_observations[j + 1])

\* C1: output_data is over and observations were never handed over
C1_Dropped ==
    /\ pc = "raised"
    /\ raised = "TypeError"
    /\ Len(calls) = 1
    /\ Len(Emitted(calls)) < Len(accumulated_observations)

\* C2, as stated: every observation of a segment lies in the half-open window
\* of the bucket the segment was handed over at:
\* bucket_start <= timestamp < bucket_start + bucket_seconds.
C2_HalfOpenWindow ==
    \A k \in 1..Len(calls) :
        \A j \in 1..Len(calls[k].point.items) :
            /\ calls[k].curtime <= Timestamp(calls[k].point.items[j])
            /\ Timestamp(calls[k].point.items[j])
                   < calls[k].curtime + bucket_hours * 3600

\* C2: an observation at 3600 handed over in the segment of the one-hour
\* bucket that starts at 0
C2_BoundaryKept ==
    /\ bucket_hours = 1
    /\ Len(calls) = 1
    /\ calls[1].curtime = 0
    /\ \E j \in 1..Len(calls[1].point.items) :
          Timestamp(calls[1].point.items[j]) = 3600

\* C3, as stated: every segment handed over is rendered without error into a
\* block of four lines written to the segment's file.
C3_SegmentsRendered ==
    Len(calls) > 0 =>
        /\ raised = ""
        /\ \A k \in 1..Len(calls) :
              /\ calls[k].output_file \in DOMAIN files
              /\ Cardinality(Newlines(files[calls[k].output_file])) = 3

\* C3: the first segment handed over ends output_data with a TypeError and
\* nothing written
C3_RenderRaises ==
    /\ Len(calls) = 1
    /\ Len(calls[1].point.items) > 0
    /\ pc = "raised"
    /\ raised = "TypeError"
    /\ DOMAIN files = {}

\* C8, as stated: bucket_start begins at the start of the earliest
\* observation's bucket and every close of a segment adds bucket_hours*3600 to
\* it, so that the k-th segment (k = 0, 1, ...) is labelled by the bucket that
\* starts k bucket widths later and no two segments get the same file name.
C8_BucketLabels ==
    (pc \in {"for", "returned", "raised"} /\ Len(accumulated_observations) > 0) =>
        /\ curtime = FirstBucket + ClosesDone * bucket_hours * 3600
        /\ \A k \in 1..Len(calls) :
              calls[k].output_file =
                  BucketFile(mission_name,
                             FirstBucket + (k - 1) * bucket_hours * 3600,
                             bucket_hours)
        /\ \A k \in 1..Len(calls) : \A h \in 1..Len(calls) :
              k # h => calls[k].output_file # calls[h].output_file

\* C8: a segment of a 24 hour bucket closed by an observation, with
\* bucket_start where it was
C8_NoAdvance ==
    /\ bucket_hours = 24
    /\ pc = "raised"
    /\ i < Len(accumulated_observations)
    /\ Len(calls) = 1
    /\ curtime = FirstBucket

\* C9, as stated: when the observation that closes a segment lies two or more
\* bucket widths past the start of the closed bucket, that observation and
\* every later one within one bucket width of it are handed over together in
\* the next segment.
C9_OversizedSegment ==
    Ended =>
        \A k \in 1..Len(calls) :
            LET segment == calls[k].point.items
                closer == Place(segment[Len(segment)]) + 1
                observations == accumulated_observations
            IN (/\ Len(segment) > 0
                /\ closer <= Len(observations)
                /\ Timestamp(observations[closer]) - calls[k].curtime
                       >= 2 * bucket_hours * 3600) =>
                   /\ Len(calls) > k
                   /\ \A j \in closer..Len(observations) :
                         Timestamp(observations[j]) - Timestamp(observations[closer])
                             < bucket_hours * 3600 =>
                         \E h \in 1..Len(calls[k + 1].point.items) :
                             calls[k + 1].point.items[h] = observations[j]

\* C9: the timestamps 100, 20000, 20100 in one-hour buckets: output_data is
\* over after the segment of the first
C9_GapRaises ==
    /\ bucket_hours = 1
    /\ Len(accumulated_observations) = 3
    /\ Timestamp(accumulated_observations[1]) = 100
    /\ Timestamp(accumulated_observations[2]) = 20000
    /\ Timestamp(accumulated_observations[3]) = 20100
    /\ pc = "raised"
    /\ Len(calls) = 1
    /\ Len(calls[1].point.items) = 1

(***************************************************************************)
(* Properties of wb_get_request                                            *)
(***************************************************************************)
\* the status of the latest requests.get (0 before the first)
LastStatus == IF gets = <<>> THEN 0 ELSE gets[Len(gets)]

\* C10, the part that holds in every state: the count of requests, what comes
\* before a retry, the sleeps, and how the call ends
C10_Bounded ==
    /\ Len(gets) <= 6
    /\ \A k \in 2..Len(gets) : gets[k - 1] = 502
    /\ Len(sleeps) = (IF gets = <<>> THEN 0 ELSE Len(gets) - 1)
    /\ \A k \in 1..Len(sleeps) : sleeps[k] = 2 ^ (k - 1)
    /\ pc = "returned" =>
          /\ LastStatus = 200
          /\ observations_page = response.body
    /\ pc = "raised" =>
          \/ gets = <<>> /\ raised = "KeyError"
          \/ gets # <<>> /\ LastStatus = 0 /\ raised = "ConnectionError"
          \/ /\ LastStatus \in 400..599
             /\ raised = "HTTPError"
             /\ LastStatus = 502 => Len(gets) = 6

\* C10: one call of wb_get_request makes at most six requests, a further one
\* only after a 502, sleeps 1, 2, 4, 8, 16 seconds before the retries, and
\* comes to an end: it returns the body of the last response when that one is
\* successful and raises otherwise, a 502 only once the fifth retry has
\* failed.  (Fairness: every requests.get and every time.sleep comes back.)
C10_BoundedRetry == []C10_Bounded /\ <>(pc \in {"returned", "raised"})

\* C10: six 502 in a row, the five sleeps between them, and the HTTPError
C10_SixGets ==
    /\ pc = "raised"
    /\ raised = "HTTPError"
    /\ gets = <<502, 502, 502, 502, 502, 502>>
    /\ sleeps = <<1, 2, 4, 8, 16>>

(***************************************************************************)
(* Properties of main's page loop                                          *)
(***************************************************************************)
\* the observations of the pages, in the order they arrived
RECURSIVE Arrivals(_)
Arrivals(ps) ==
    IF Len(ps) = 0 THEN <<>>
    ELSE Arrivals(SubSeq(ps, 1, Len(ps) - 1)) \o ps[Len(ps)].observations

IsNamed(observation) == "mission_name" \in DOMAIN observation.d

\* the arrived observations of a mission, in arrival order
OfMission(observations, mission) ==
    SelectSeq(observations,
              LAMBDA o : IsNamed(o) /\ o.d["mission_name"].s = mission)

\* the missions named by the arrived observations
ArrivedMissions(observations) ==
    {observations[j].d["mission_name"].s :
        j \in {h \in 1..Len(observations) : IsNamed(observations[h])}}

\* C7: the page loop asks for a further page exactly after a page that says
\* has_next_page; while it runs and once it is over, the groups are those of
\* the missions named so far, each group holding the observations of its
\* mission that arrived, once each and in arrival order, and no observation
\* without a mission_name is in any group.
C7_PageLoop ==
    /\ \A k \in 1..(Len(pages) - 1) : pages[k].has_next_page
    /\ pc \in {"main_for", "returned"} =>
          /\ Len(pages) >= 1
          /\ ~pages[Len(pages)].has_next_page
    /\ pc \in {"main_while", "main_for", "returned"} =>
          /\ {observations_by_mission[j].mission_name :
                 j \in 1..Len(observations_by_mission)}
             = ArrivedMissions(Arrivals(pages))
          /\ \A j \in 1..Len(observations_by_mission) :
                /\ observations_by_mission[j].observations
                   = OfMission(Arrivals(pages), observations_by_mission[j].mission_name)
                /\ \A h \in 1..Len(observations_by_mission) :
                      observations_by_mission[h].mission_name
                          = observations_by_mission[j].mission_name => h = j

\* C7: two pages, an observation without a mission_name on the first and the
\* only group filled from the second, main run to its end
C7_Skipped ==
    /\ pc = "returned"
    /\ Len(pages) = 2
    /\ Len(pages[1].observations) = 1
    /\ ~IsNamed(pages[1].observations[1])
    /\ Len(observations_by_mission) = 1
    /\ observations_by_mission[1].observations = pages[2].observations
    /\ DOMAIN files # {}

====
